---- MODULE Spec2Model ----
(***************************************************************************)
(* Model of script.py: the segmented transcription pipeline.               *)
(*                                                                         *)
(* The filesystem (audio/, audio/split/, json/, srt/) is the persistent    *)
(* state; process_video_files is run MaxRuns times over it.  External      *)
(* collaborators (ffmpeg, the transcription service, os.listdir order)     *)
(* are nondeterministic.  Times are in whole milliseconds.                 *)
(***************************************************************************)
EXTENDS Integers, Sequences, FiniteSets, TLC

\* ---------------------------------------------------------------- bounds
NumItems == 2          \* video files in VIDEO_DIR
MaxChunks == 2         \* most chunks ffmpeg cuts one audio into
MaxRuns == 2           \* invocations of process_video_files
TailDur == 300000      \* duration (ms) of the last chunk of a split audio

SmallSplit == 60       \* chunk counts 1..SmallSplit are tried by SpecSplit
BigSplit == 1001       \* and one count whose last index needs four digits
MaxSegs == 3           \* SpecRender: segments of a transcript
TimeWindow == 1099     \* SpecTimestamp: milliseconds tried from each base

\* ------------------------------------------------------ program constants
MaxAttempts == 5       \* while retry_count < 5
BaseWait == 60         \* wait_time = 60 * retry_count
SegmentTime == 600000  \* -segment_time 600, in ms

Items == 1..NumItems

VARIABLES
  run,          \* number of the current invocation of process_video_files
  pc,           \* position of the worker inside process_video_files
  video_files,  \* the list built at line 137 for this run
  pos,          \* index into video_files of the loop at line 142
  nchunks,      \* input: chunks the audio of each item spans (1 = within size limit)
  audio,        \* items whose audio/<base>.webm exists
  splitDir,     \* files in audio/split/
  json,         \* json/<base>-split<idx>.json files
  combined,     \* json/<base>.json files
  srt,          \* srt/<base>.srt files
  split_files,  \* local of process_video_files
  json_files,   \* local of process_video_files
  retry_count,  \* local of transcribe_audio_with_groq
  fileRead,     \* audio_file has been read to its end by an earlier attempt
  lastResp,     \* history: outcome of the most recent service request
  lastWait,     \* history: seconds slept after the most recent request
  lastHint,     \* history: retry hint in the message of the most recent error
  lastPayload,  \* history: bytes sent by the most recent request
  calls,        \* history: requests made for the current item
  anyErr,       \* history: a request for the current item has failed
  fresh,        \* history: json/ files written in this run
  called,       \* history: items for which a request was made in this run
  exhausted,    \* history: items one of whose chunks used up all attempts in this run
  state,        \* history: lifecycle state of each WorkItem in this run
  srtAtStart,   \* history: srt/ as it was when this run started
  failedLeft    \* history: items whose latest processing ended in an error

vars == <<run, pc, video_files, pos, nchunks, audio, splitDir, json, combined,
          srt, split_files, json_files, retry_count, fileRead, lastResp,
          lastWait, lastHint, lastPayload, calls, anyErr, fresh, called,
          exhausted, state, srtAtStart, failedLeft>>

fsVars == <<audio, splitDir, json, combined, srt>>
localVars == <<split_files, json_files, retry_count, fileRead>>
reqVars == <<lastHint, lastPayload>>
itemVars == <<calls, anyErr>>

\* the retry hint of an error message: "try again in <h>h<m>m<s>s", or none
Hint(h, m, ms) == [parseable |-> TRUE, hours |-> h, minutes |-> m, millis |-> ms]
NoHint == [parseable |-> FALSE, hours |-> 0, minutes |-> 0, millis |-> 0]

\* the hints a rate-limit message may carry: none, "45.2s", "1m30.5s"
Hints == { NoHint, Hint(0, 0, 45200), Hint(0, 1, 30500) }

\* ------------------------------------------------------------ file values
NoJson == [exists |-> FALSE, segments |-> <<>>]
NoSrt == [exists |-> FALSE, cues |-> <<>>]

\* paths: the extracted audio of an item, a chunk in audio/split/
AudioPath(i) == [dir |-> "audio", base |-> i, idx |-> 0]
ChunkPath(i, k) == [dir |-> "split", base |-> i, idx |-> k]

\* json_output_path of line 157 is keyed by (base_name, idx), idx from 1
MaxJsonIdx == NumItems * MaxChunks
JsonNames == Items \X (1..MaxJsonIdx)

Seg(s, e, t) == [start |-> s, end |-> e, text |-> t]

\* what the service can answer for the complete bytes of file f: the same
\* audio gives the same transcript, in times local to f; the text of a segment
\* is the speech of f, so it is identified with f
FullTranscripts(f) ==
  { << Seg(0, 5000, <<f.base, f.idx>>), Seg(200000, 205000, <<f.base, f.idx>>) >> }

\* duration of an audio file: ffmpeg cuts every SegmentTime; the last chunk is shorter
Duration(f) ==
  IF f.dir = "split"
  THEN IF f.idx < nchunks[f.base] - 1 THEN SegmentTime ELSE TailDur
  ELSE TailDur

\* os.listdir(VIDEO_DIR) returns the entries in arbitrary order
Perms(S) ==
  { p \in [1..Cardinality(S) -> S] : \A a, b \in 1..Cardinality(S) : a # b => p[a] # p[b] }

cur == video_files[pos]

\* mutant: the existence test looks at the extracted audio
SrtExistsAudio(i) == i \in audio

\* mutant: the existence test is dropped
SrtExistsNever(i) == FALSE

\* line 147: os.path.exists(srt_output_path)
SrtExists(i) == srt[i].exists

Terminal == {"SubtitleWritten", "Skipped", "Failed"}

\* ------------------------------------------------------------------- Init
\* module load: the three directories exist and are empty (lines 15-17)
Init ==
  /\ run = 0
  /\ pc = "idle"
  /\ video_files = <<>>
  /\ pos = 1
  /\ nchunks \in [Items -> 1..MaxChunks]
  /\ audio = {}
  /\ splitDir = {}
  /\ json = [n \in JsonNames |-> NoJson]
  /\ combined = [i \in Items |-> NoJson]
  /\ srt = [i \in Items |-> NoSrt]
  /\ split_files = <<>>
  /\ json_files = <<>>
  /\ retry_count = 0
  /\ fileRead = FALSE
  /\ lastResp = "none"
  /\ lastWait = 0
  /\ lastHint = NoHint
  /\ lastPayload = "none"
  /\ calls = 0
  /\ anyErr = FALSE
  /\ fresh = {}
  /\ called = {}
  /\ exhausted = {}
  /\ state = [i \in Items |-> "Pending"]
  /\ srtAtStart = [i \in Items |-> NoSrt]
  /\ failedLeft = {}

\* an exception leaves process_video_files: nothing catches it (lines 142-169);
\* the locals of the frames it unwinds are gone
Raise ==
  /\ pc' = "aborted"
  /\ split_files' = <<>>
  /\ json_files' = <<>>
  /\ retry_count' = 0
  /\ fileRead' = FALSE
  /\ calls' = 0
  /\ anyErr' = FALSE
  /\ state' = [state EXCEPT ![cur] = "Failed"]
  /\ failedLeft' = failedLeft \cup {cur}

\* process_video_files is invoked (lines 135-140)
StartRun ==
  /\ pc \in {"idle", "done", "aborted"}
  /\ run < MaxRuns
  /\ run' = run + 1
  /\ video_files' \in Perms(Items)
  /\ pos' = 1
  /\ pc' = "loop"
  /\ split_files' = <<>>
  /\ json_files' = <<>>
  /\ retry_count' = 0
  /\ fileRead' = FALSE
  /\ lastResp' = "none"
  /\ lastWait' = 0
  /\ fresh' = {}
  /\ called' = {}
  /\ exhausted' = {}
  /\ state' = [i \in Items |-> "Pending"]
  /\ srtAtStart' = srt
  /\ lastHint' = NoHint
  /\ lastPayload' = "none"
  /\ calls' = 0
  /\ anyErr' = FALSE
  /\ UNCHANGED <<nchunks, fsVars, failedLeft>>

\* the for loop is over: "Processing complete." (line 171)
Finish ==
  /\ pc = "loop"
  /\ pos > Len(video_files)
  /\ pc' = "done"
  /\ UNCHANGED <<reqVars, itemVars, run, video_files, pos, nchunks, fsVars, localVars, lastResp,
                 lastWait, fresh, called, exhausted, state, srtAtStart, failedLeft>>

\* lines 147-149: the subtitle exists, continue
Skip ==
  /\ pc = "loop"
  /\ pos <= Len(video_files)
  /\ SrtExists(cur)
  /\ state' = [state EXCEPT ![cur] = "Skipped"]
  /\ pos' = pos + 1
  /\ UNCHANGED <<reqVars, itemVars, run, pc, video_files, nchunks, fsVars, localVars, lastResp,
                 lastWait, fresh, called, exhausted, srtAtStart, failedLeft>>

\* convert_video_to_audio (lines 29-39): ffmpeg wrote audio/<base>.webm
ExtractOk ==
  /\ pc = "loop"
  /\ pos <= Len(video_files)
  /\ ~SrtExists(cur)
  /\ audio' = audio \cup {cur}
  /\ state' = [state EXCEPT ![cur] = "AudioReady"]
  /\ pc' = "split"
  /\ UNCHANGED <<reqVars, itemVars, run, video_files, pos, nchunks, splitDir, json, combined, srt,
                 localVars, lastResp, lastWait, fresh, called, exhausted,
                 srtAtStart, failedLeft>>

\* convert_video_to_audio: ffmpeg exits non-zero, run_command re-raises (line 26)
ExtractFail ==
  /\ pc = "loop"
  /\ pos <= Len(video_files)
  /\ ~SrtExists(cur)
  /\ Raise
  /\ UNCHANGED <<reqVars, run, video_files, pos, nchunks, fsVars, lastResp, lastWait,
                 fresh, called, exhausted, srtAtStart>>

\* "%03d": the decimal digits of k, zero-padded to at least three
RECURSIVE DecDigits(_)
DecDigits(k) == IF k < 10 THEN <<k>> ELSE DecDigits(k \div 10) \o <<k % 10>>

RECURSIVE Pad3(_)
Pad3(d) == IF Len(d) < 3 THEN Pad3(<<0>> \o d) ELSE d

\* the name "<base>-split<ddd>.webm" as the string sorted() compares; the "."
\* after the digits sorts below every digit
NameKey(f) == <<f.base>> \o Pad3(DecDigits(f.idx)) \o <<-1>>

\* Python's string order
RECURSIVE LexLess(_, _)
LexLess(a, b) ==
  IF a = <<>> THEN b # <<>>
  ELSE IF b = <<>> THEN FALSE
  ELSE IF Head(a) # Head(b) THEN Head(a) < Head(b)
  ELSE LexLess(Tail(a), Tail(b))

\* sorted(..., key=lambda x: x.lower()) of lines 63-66
\* (names are distinct, so each has its own place: one more than the number of
\* names below it)
SortedByName(S) ==
  LET keyed == { <<NameKey(x), x>> : x \in S }
      placed == { <<1 + Cardinality({ q \in keyed : LexLess(q[1], p[1]) }), p[2]>> : p \in keyed }
  IN [k \in 1..Cardinality(S) |-> (CHOOSE p \in placed : p[1] = k)[2]]

\* the chunk files ffmpeg writes for the audio of item i (line 55 pattern)
OwnChunks(i) == { ChunkPath(i, k) : k \in 0..(nchunks[i] - 1) }

\* line 47: file_size_mb <= max_size_mb; an audio within the limit is one
\* that the segmenter would not cut
WithinLimit(i) == nchunks[i] = 1

\* split_audio_if_needed, lines 47-48: small enough, returned unchanged
SplitNotNeeded ==
  /\ pc = "split"
  /\ WithinLimit(cur)
  /\ split_files' = <<AudioPath(cur)>>
  /\ json_files' = <<>>
  /\ state' = [state EXCEPT ![cur] = "Segmented"]
  /\ pc' = "transcribe"
  /\ UNCHANGED <<reqVars, itemVars, run, video_files, pos, nchunks, fsVars, retry_count, fileRead,
                 lastResp, lastWait, fresh, called, exhausted, srtAtStart,
                 failedLeft>>

\* split_audio_if_needed, lines 50-67: ffmpeg cut the audio, the whole split
\* directory is listed and sorted
SplitOk ==
  /\ pc = "split"
  /\ ~WithinLimit(cur)
  /\ splitDir' = splitDir \cup OwnChunks(cur)
  /\ split_files' = SortedByName(splitDir')
  /\ json_files' = <<>>
  /\ state' = [state EXCEPT ![cur] = "Segmented"]
  /\ pc' = "transcribe"
  /\ UNCHANGED <<reqVars, itemVars, run, video_files, pos, nchunks, audio, json, combined, srt,
                 retry_count, fileRead, lastResp, lastWait, fresh, called,
                 exhausted, srtAtStart, failedLeft>>

\* split_audio_if_needed: the segmentation command failed (line 61)
SplitFail ==
  /\ pc = "split"
  /\ ~WithinLimit(cur)
  /\ Raise
  /\ UNCHANGED <<reqVars, run, video_files, pos, nchunks, fsVars, lastResp, lastWait,
                 fresh, called, exhausted, srtAtStart>>

\* line 157: idx of the chunk being transcribed, from 1
idx == Len(json_files) + 1
JsonPath(i, k) == <<i, k>>

\* transcribe_audio_with_groq, lines 72-75: the file is opened once
BeginTranscribe ==
  /\ pc = "transcribe"
  /\ idx <= Len(split_files)
  /\ retry_count' = 0
  /\ fileRead' = FALSE
  /\ lastResp' = "none"
  /\ lastWait' = 0
  /\ pc' = "attempt"
  /\ lastHint' = NoHint
  /\ lastPayload' = "none"
  /\ UNCHANGED <<itemVars, run, video_files, pos, nchunks, fsVars, split_files, json_files,
                 fresh, called, exhausted, state, srtAtStart,
                 failedLeft>>

\* audio_file.read() of line 79: everything from the current position
Payload(f) == IF fileRead THEN "empty" ELSE "full"

\* the transcripts the service may return for a payload
Responses(f) == IF Payload(f) = "full" THEN FullTranscripts(f) ELSE { <<>> }

\* lines 78-86: the request succeeded, the transcript is stored, break
AttemptOk ==
  /\ pc = "attempt"
  /\ retry_count < MaxAttempts
  /\ \E t \in Responses(split_files[idx]) :
       json' = [json EXCEPT ![JsonPath(cur, idx)] =
                  [exists |-> TRUE, segments |-> t]]
  /\ fileRead' = FALSE
  /\ retry_count' = 0
  /\ lastResp' = "ok"
  /\ lastWait' = 0
  /\ fresh' = fresh \cup {JsonPath(cur, idx)}
  /\ called' = called \cup {cur}
  /\ json_files' = Append(json_files, JsonPath(cur, idx))
  /\ pc' = "transcribe"
  /\ lastHint' = NoHint
  /\ lastPayload' = Payload(split_files[idx])
  /\ calls' = calls + 1
  /\ UNCHANGED <<anyErr, run, video_files, pos, nchunks, audio, splitDir, combined, srt,
                 split_files, exhausted, state, srtAtStart, failedLeft>>

\* the classes of failure of one request
ErrorKinds == {"rate_limit", "transient", "fatal"}

\* mutant: the wait does not grow with the attempts
AttemptErrFlatWait ==
  /\ pc = "attempt"
  /\ retry_count < MaxAttempts
  /\ \E k \in ErrorKinds :
       /\ lastResp' = k
       /\ lastHint' \in (IF k = "rate_limit" THEN Hints ELSE {NoHint})
  /\ lastPayload' = Payload(split_files[idx])
  /\ calls' = calls + 1
  /\ anyErr' = TRUE
  /\ fileRead' = TRUE
  /\ retry_count' = retry_count + 1
  /\ lastWait' = BaseWait
  /\ called' = called \cup {cur}
  /\ UNCHANGED <<run, pc, video_files, pos, nchunks, fsVars, split_files,
                 json_files, fresh, exhausted, state, srtAtStart, failedLeft>>

\* lines 87-91: any exception is counted, slept on and retried
AttemptErr ==
  /\ pc = "attempt"
  /\ retry_count < MaxAttempts
  /\ \E k \in ErrorKinds :
       /\ lastResp' = k
       /\ lastHint' \in (IF k = "rate_limit" THEN Hints ELSE {NoHint})
  /\ lastPayload' = Payload(split_files[idx])
  /\ calls' = calls + 1
  /\ anyErr' = TRUE
  /\ fileRead' = TRUE
  /\ retry_count' = retry_count + 1
  /\ lastWait' = BaseWait * retry_count'
  /\ called' = called \cup {cur}
  /\ UNCHANGED <<run, pc, video_files, pos, nchunks, fsVars, split_files,
                 json_files, fresh, exhausted, state, srtAtStart, failedLeft>>

\* line 76 is false: the loop ends, the function returns normally and
\* line 159 records the path
GiveUp ==
  /\ pc = "attempt"
  /\ retry_count >= MaxAttempts
  /\ exhausted' = exhausted \cup {cur}
  /\ json_files' = Append(json_files, JsonPath(cur, idx))
  /\ retry_count' = 0
  /\ fileRead' = FALSE
  /\ lastResp' = "none"
  /\ lastWait' = 0
  /\ pc' = "transcribe"
  /\ lastHint' = NoHint
  /\ lastPayload' = "none"
  /\ UNCHANGED <<itemVars, run, video_files, pos, nchunks, fsVars, split_files,
                 fresh, called, state,
                 srtAtStart, failedLeft>>

\* the loop of lines 156-159 is over
EndTranscribe ==
  /\ pc = "transcribe"
  /\ idx > Len(split_files)
  /\ state' = [state EXCEPT ![cur] = "Transcribed"]
  /\ lastResp' = "none"
  /\ lastWait' = 0
  /\ pc' = "combine"
  /\ lastHint' = NoHint
  /\ lastPayload' = "none"
  /\ UNCHANGED <<itemVars, run, video_files, pos, nchunks, fsVars, localVars, fresh, called, exhausted, srtAtStart, failedLeft>>

\* lines 97-101: the segment lists are concatenated as they are
RECURSIVE combine_json_segments(_)
combine_json_segments(files) ==
  IF files = <<>> THEN <<>>
  ELSE json[Head(files)].segments \o combine_json_segments(Tail(files))

\* mutant: a transcript file that is missing is passed over instead of raising
CombineOkLax ==
  /\ pc = "combine"
  /\ combined' = [combined EXCEPT ![cur] =
                    [exists |-> TRUE, segments |-> combine_json_segments(json_files)]]
  /\ state' = [state EXCEPT ![cur] = "Combined"]
  /\ pc' = "render"
  /\ UNCHANGED <<reqVars, itemVars, run, video_files, pos, nchunks, audio, splitDir, json, srt,
                 localVars, lastResp, lastWait, fresh, called, exhausted,
                 srtAtStart, failedLeft>>

\* combine_json_segments, lines 94-105
CombineOk ==
  /\ pc = "combine"
  /\ \A k \in 1..Len(json_files) : json[json_files[k]].exists
  /\ combined' = [combined EXCEPT ![cur] =
                    [exists |-> TRUE, segments |-> combine_json_segments(json_files)]]
  /\ state' = [state EXCEPT ![cur] = "Combined"]
  /\ pc' = "render"
  /\ UNCHANGED <<reqVars, itemVars, run, video_files, pos, nchunks, audio, splitDir, json, srt,
                 localVars, lastResp, lastWait, fresh, called, exhausted,
                 srtAtStart, failedLeft>>

\* line 99: open() of a transcript that was never written raises
CombineFail ==
  /\ pc = "combine"
  /\ \E k \in 1..Len(json_files) : ~json[json_files[k]].exists
  /\ Raise
  /\ UNCHANGED <<reqVars, run, video_files, pos, nchunks, fsVars, lastResp, lastWait,
                 fresh, called, exhausted, srtAtStart>>

\* ---- seconds_to_srt_timestamp, lines 108-114.  A time is a whole number t
\* of milliseconds; the program holds it as the double nearest to t/1000
\* (json.load), and line 110 computes on that double.

\* the binary exponent E of t/1000: 2^E <= t/1000 < 2^(E+1)
Exponent(t) ==
  CHOOSE E \in -10..18 :
    IF E >= 0 THEN 1000 * 2^E <= t /\ t < 1000 * 2^(E + 1)
              ELSE t < 1000 /\ 1000 <= t * 2^(-E) /\ t * 2^(-E - 1) < 1000

RECURSIVE Pow2Mod1000(_)
Pow2Mod1000(n) == IF n = 0 THEN 1 ELSE (2 * Pow2Mod1000(n - 1)) % 1000

\* t/1000 lies Residue(t)/1000 units in the last place above a double; the
\* nearest double is that one when the residue is below 500, the next one
\* when it is above (500 cannot occur)
Residue(t) == ((t % 1000) * Pow2Mod1000(52 - Exponent(t))) % 1000

\* the least power of two that is not below m
CeilPow2(m) == CHOOSE p \in { 2^j : j \in 0..10 } : p >= m /\ (p = 1 \/ p \div 2 < m)

\* line 110, int((seconds % 1) * 1000): seconds % 1 is exact; when the double
\* is below t/1000 the product is below t % 1000 by Residue(t) units in the
\* last place of seconds, and it is rounded up to t % 1000 only when that is
\* at most half a unit in the last place of the product
FractionMillis(t) ==
  LET m == t % 1000
      r == Residue(t)
      a == Exponent(t) + 2
  IN IF t = 0 \/ r = 0 \/ r > 500 THEN m
     ELSE IF (IF a >= 0 THEN r * 2^a <= CeilPow2(m) ELSE r <= CeilPow2(m) * 2^(-a))
          THEN m
          ELSE m - 1

\* mutant: the minutes are not reduced by the hours
seconds_to_srt_timestampNoHours(t) ==
  LET milliseconds == FractionMillis(t)
      total_seconds == t \div 1000
      hours == total_seconds \div 3600
  IN <<hours, total_seconds \div 60, total_seconds % 60, milliseconds>>

\* lines 110-114: <<hours, minutes, seconds, milliseconds>>
seconds_to_srt_timestamp(t) ==
  LET milliseconds == FractionMillis(t)
      total_seconds == t \div 1000
      hours == total_seconds \div 3600
      remainder == total_seconds % 3600
  IN <<hours, remainder \div 60, remainder % 60, milliseconds>>

\* dict.get(key, default) of lines 126-128
Get(segment, key, default) == IF key \in DOMAIN segment THEN segment[key] ELSE default

\* mutant: a segment without text gets no block
convert_json_to_srtSkipEmpty(segments) ==
  LET kept == SelectSeq(segments, LAMBDA g : Get(g, "text", <<>>) # <<>>)
  IN [k \in 1..Len(kept) |->
        [index |-> k,
         start |-> seconds_to_srt_timestamp(Get(kept[k], "start", 0)),
         end |-> seconds_to_srt_timestamp(Get(kept[k], "end", 0)),
         text |-> Get(kept[k], "text", <<>>)]]

\* lines 125-129: one block per segment, numbered from 1; a text is a
\* sequence, the empty text is <<>>
convert_json_to_srt(segments) ==
  [k \in 1..Len(segments) |->
     [index |-> k,
      start |-> seconds_to_srt_timestamp(Get(segments[k], "start", 0)),
      end |-> seconds_to_srt_timestamp(Get(segments[k], "end", 0)),
      text |-> Get(segments[k], "text", <<>>)]]

\* line 164
Render ==
  /\ pc = "render"
  /\ srt' = [srt EXCEPT ![cur] =
               [exists |-> TRUE, cues |-> convert_json_to_srt(combined[cur].segments)]]
  /\ state' = [state EXCEPT ![cur] = "SubtitleWritten"]
  /\ failedLeft' = failedLeft \ {cur}
  /\ pc' = "cleanup"
  /\ UNCHANGED <<reqVars, itemVars, run, video_files, pos, nchunks, audio, splitDir, json, combined,
                 localVars, lastResp, lastWait, fresh, called, exhausted,
                 srtAtStart>>

Range(s) == { s[k] : k \in 1..Len(s) }

\* lines 168-169: the files os.remove is called on
CleanupFiles == Range(split_files)
CleanupJson == Range(json_files)

\* lines 167-169, then the next iteration
Cleanup ==
  /\ pc = "cleanup"
  /\ audio' = audio \ { f.base : f \in { g \in CleanupFiles : g.dir = "audio" } }
  /\ splitDir' = splitDir \ CleanupFiles
  /\ json' = [n \in JsonNames |-> IF n \in CleanupJson THEN NoJson ELSE json[n]]
  /\ fresh' = fresh \ CleanupJson
  /\ pos' = pos + 1
  /\ pc' = "loop"
  /\ split_files' = <<>>
  /\ json_files' = <<>>
  /\ calls' = 0
  /\ anyErr' = FALSE
  /\ UNCHANGED <<reqVars, run, video_files, nchunks, combined, srt, retry_count, fileRead,
                 lastResp, lastWait, called, exhausted, state, srtAtStart,
                 failedLeft>>

Next ==
  \/ StartRun
  \/ Finish
  \/ Skip
  \/ ExtractOk
  \/ ExtractFail
  \/ SplitNotNeeded
  \/ SplitOk
  \/ SplitFail
  \/ BeginTranscribe
  \/ AttemptOk
  \/ AttemptErr
  \/ GiveUp
  \/ EndTranscribe
  \/ CombineOk
  \/ CombineFail
  \/ Render
  \/ Cleanup

Spec == Init /\ [][Next]_vars

\* the interpreter runs the program on: a step that can be taken is taken
FairSpec == Spec /\ WF_vars(Next)

\* ---------------------------------------------------------------------------
\* split_audio_if_needed on its own: the first item of a first run, its audio
\* just extracted (line 152), for audios of many lengths
SplitCounts == (1..SmallSplit) \cup {BigSplit}

InitSplit ==
  /\ run = 1
  /\ pc = "split"
  /\ video_files \in Perms(Items)
  /\ pos = 1
  /\ \E n \in SplitCounts : nchunks = [i \in Items |-> n]
  /\ audio = {video_files[1]}
  /\ splitDir = {}
  /\ json = [n \in JsonNames |-> NoJson]
  /\ combined = [i \in Items |-> NoJson]
  /\ srt = [i \in Items |-> NoSrt]
  /\ split_files = <<>>
  /\ json_files = <<>>
  /\ retry_count = 0
  /\ fileRead = FALSE
  /\ lastResp = "none"
  /\ lastWait = 0
  /\ lastHint = NoHint
  /\ lastPayload = "none"
  /\ calls = 0
  /\ anyErr = FALSE
  /\ fresh = {}
  /\ called = {}
  /\ exhausted = {}
  /\ state = [i \in Items |-> IF i = video_files[1] THEN "AudioReady" ELSE "Pending"]
  /\ srtAtStart = [i \in Items |-> NoSrt]
  /\ failedLeft = {}

NextSplit ==
  \/ SplitNotNeeded
  \/ SplitOk
  \/ SplitFail

SpecSplit == InitSplit /\ [][NextSplit]_vars

\* ---------------------------------------------------------------------------
\* convert_json_to_srt on its own: the first item of a first run, its audio
\* within the size limit, transcribed by one request that returned segs and
\* combined (line 162); line 164 is next
InitAtRender(segs) ==
  /\ run = 1
  /\ pc = "render"
  /\ video_files \in Perms(Items)
  /\ pos = 1
  /\ nchunks = [i \in Items |-> 1]
  /\ audio = {video_files[1]}
  /\ splitDir = {}
  /\ json = [n \in JsonNames |->
               IF n = JsonPath(video_files[1], 1)
               THEN [exists |-> TRUE, segments |-> segs] ELSE NoJson]
  /\ combined = [i \in Items |->
                   IF i = video_files[1]
                   THEN [exists |-> TRUE, segments |-> segs] ELSE NoJson]
  /\ srt = [i \in Items |-> NoSrt]
  /\ split_files = <<AudioPath(video_files[1])>>
  /\ json_files = <<JsonPath(video_files[1], 1)>>
  /\ retry_count = 0
  /\ fileRead = FALSE
  /\ lastResp = "none"
  /\ lastWait = 0
  /\ lastHint = NoHint
  /\ lastPayload = "none"
  /\ calls = 1
  /\ anyErr = FALSE
  /\ fresh = {JsonPath(video_files[1], 1)}
  /\ called = {video_files[1]}
  /\ exhausted = {}
  /\ state = [i \in Items |-> IF i = video_files[1] THEN "Combined" ELSE "Pending"]
  /\ srtAtStart = [i \in Items |-> NoSrt]
  /\ failedLeft = {}

\* the segments a response may hold: complete ones, one with an empty text,
\* and ones that lack a key
SegShapes ==
  { Seg(1500, 2750, <<1>>),
    Seg(61001, 3723004, <<2>>),
    Seg(1500, 2750, <<>>),
    [end |-> 2750, text |-> <<1>>],
    [start |-> 1500, text |-> <<1>>],
    [start |-> 1500, end |-> 2750] }

Transcripts == UNION { [1..n -> SegShapes] : n \in 0..MaxSegs }

InitRender == \E segs \in Transcripts : InitAtRender(segs)

NextRender ==
  \/ Render
  \/ Cleanup

SpecRender == InitRender /\ [][NextRender]_vars

\* ---------------------------------------------------------------------------
\* seconds_to_srt_timestamp on its own: transcripts of one segment whose
\* times run over windows at 0, below one minute, below one hour and below
\* one hundred hours
TimeBases == {0, 59000, 3599000, 359998900}

TimeInputs == { b + d : b \in TimeBases, d \in 0..TimeWindow }

InitTimestamp == \E t \in TimeInputs : InitAtRender(<<Seg(t, t, <<>>)>>)

SpecTimestamp == InitTimestamp /\ [][NextRender]_vars

\* ------------------------------------------------------------------ claims
RunEnded == pc \in {"done", "aborted"}
Processing == pc \notin {"idle", "done", "aborted"} /\ pos <= Len(video_files)

\* C1: when a run ends, every WorkItem of the batch is in a terminal state:
\* the failure of one item does not keep later items from being processed.
C1_FailureIsolation ==
  RunEnded => \A i \in Items : state[i] \in Terminal

\* the segments of a local transcript moved by off
Shifted(segs, off) ==
  [k \in 1..Len(segs) |-> Seg(segs[k].start + off, segs[k].end + off, segs[k].text)]

\* the global transcript of chunks k..n, chunk k starting at off
RECURSIVE OffsetCombine(_, _)
OffsetCombine(k, off) ==
  IF k > Len(json_files) THEN <<>>
  ELSE Shifted(json[json_files[k]].segments, off)
         \o OffsetCombine(k + 1, off + Duration(split_files[k]))

\* C2: the combined transcript holds every segment of chunk i shifted by the
\* sum of the durations of the chunks before i.
C2_OffsetCorrect ==
  pc = "render" => combined[cur].segments = OffsetCombine(1, 0)

NonDecreasing(segs) ==
  \A k \in 1..(Len(segs) - 1) : segs[k].start <= segs[k + 1].start

LocalTranscriptsOk ==
  \A k \in 1..Len(json_files) :
    /\ NonDecreasing(json[json_files[k]].segments)
    /\ \A m \in 1..Len(json[json_files[k]].segments) :
         json[json_files[k]].segments[m].end <= Duration(split_files[k])

\* C3: when every local transcript is ordered and lies within its chunk, the
\* combined transcript is non-decreasing in start time.
C3_Monotone ==
  (pc = "render" /\ LocalTranscriptsOk) => NonDecreasing(combined[cur].segments)

\* C4: an item one of whose chunks used up its attempts gets no subtitle, is
\* Failed when the run ends, and is never rendered from a transcript file
\* that this run did not write.
C4_ExhaustionFails ==
  \A i \in exhausted :
    /\ ~srt[i].exists
    /\ RunEnded => state[i] = "Failed"
    /\ (pc = "render" /\ cur = i) => Range(json_files) \subseteq fresh

\* C5: a rate-limit error is not charged to the retry budget and is followed
\* by another attempt.
C5_RateLimitNotCharged ==
  [][(pc = "attempt" /\ lastResp' = "rate_limit")
       => (retry_count' = retry_count /\ pc' = "attempt")]_vars

\* C6: a non-retryable error ends the call at once: no sleep, no further
\* attempt, the error reaches process_video_files.
C6_FatalImmediate ==
  [][(pc = "attempt" /\ lastResp' = "fatal")
       => (lastWait' = 0 /\ pc' = "aborted")]_vars

\* C7: an item whose subtitle exists when the loop reaches it goes from
\* Pending to Skipped in one step that leaves every file unchanged and makes
\* no request.
C7_IdempotentSkip ==
  [][(pc = "loop" /\ pos <= Len(video_files) /\ srt[cur].exists)
       => /\ state[cur] = "Pending"
          /\ state'[cur] = "Skipped"
          /\ pc' = "loop"
          /\ pos' = pos + 1
          /\ UNCHANGED <<fsVars, fresh, called>>]_vars

C7_Witness ==
  \E i \in Items : state[i] = "Skipped" /\ srt[i] = srtAtStart[i] /\ srt[i].exists

\* C8 as stated: in a second run the subtitles stay as the first run left
\* them and no request is made.
C8_RunTwice ==
  run >= 2 => (srt = srtAtStart /\ called = {})

\* C8 amended: in a later run, every subtitle that existed when the run
\* started stays as it was and no request is made for its item; when every
\* item had its subtitle, the run makes no request at all.
C8_RunTwiceAmended ==
  run >= 2 =>
    /\ \A i \in Items : srtAtStart[i].exists => (srt[i] = srtAtStart[i] /\ i \notin called)
    /\ (\A i \in Items : srtAtStart[i].exists) => called = {}

C8_Witness ==
  /\ run >= 2
  /\ pc = "done"
  /\ \A i \in Items : srtAtStart[i].exists /\ srt[i] = srtAtStart[i]

\* the intermediate artifacts of item i that are on disk
ChunksOf(i) == { f \in splitDir : f.base = i }
JsonOf(i) == { n \in JsonNames : n[1] = i /\ json[n].exists }
NoIntermediates(i) ==
  /\ i \notin audio
  /\ ChunksOf(i) = {}
  /\ JsonOf(i) = {}
  /\ ~combined[i].exists

\* C9: once an item is SubtitleWritten and its cleanup has run, none of its
\* intermediate artifacts is on disk.
C9_CleanupOnSuccess ==
  \A i \in Items :
    (state[i] = "SubtitleWritten" /\ ~(pc = "cleanup" /\ cur = i)) => NoIntermediates(i)

\* C10: no step of the processing of an item changes the artifacts left by
\* another item whose processing failed.
C10_FailedKeepArtifacts ==
  [][\A j \in failedLeft :
       (Processing /\ cur # j)
         => /\ (j \in audio') = (j \in audio)
            /\ { f \in splitDir' : f.base = j } = ChunksOf(j)
            /\ \A n \in JsonNames : n[1] = j => json'[n] = json[n]]_vars

\* C11: the chunks of one audio are returned in the order of their indices,
\* whatever their number.
C11_ChunkOrder ==
  (pc = "transcribe" /\ ~WithinLimit(cur)) =>
    \A a, b \in 1..Len(split_files) :
      (a < b /\ split_files[a].base = split_files[b].base)
        => split_files[a].idx < split_files[b].idx

\* C12: an item whose requests all succeeded has made exactly one request per
\* chunk of its audio (one request when the audio was not cut).
C12_OneRequestPerChunk ==
  (pc = "combine" /\ ~anyErr) => calls = nchunks[cur]

\* C13: within one run the state of every item changes only along the
\* lifecycle edges; the subtitle of an item is written only from Combined,
\* when the combined transcript exists and every chunk of the item has a
\* stored transcript; and for an item in a terminal state no component
\* (extraction, segmentation, request, combination, rendering) acts again.
NonTerminal == {"Pending", "AudioReady", "Segmented", "Transcribed", "Combined"}

LifecycleEdges ==
  { <<"Pending", "AudioReady">>, <<"AudioReady", "Segmented">>,
    <<"Segmented", "Transcribed">>, <<"Transcribed", "Combined">>,
    <<"Combined", "SubtitleWritten">>, <<"Pending", "Skipped">> }
  \cup { <<s, "Failed">> : s \in NonTerminal }

ChunksHaveTranscripts(i) ==
  /\ Len(json_files) = Len(split_files)
  /\ \A k \in 1..Len(json_files) : json[json_files[k]].exists
  /\ IF WithinLimit(i) THEN split_files = <<AudioPath(i)>>
                        ELSE OwnChunks(i) \subseteq Range(split_files)

C13_Lifecycle ==
  [][run' = run =>
       \A i \in Items :
         /\ state'[i] # state[i] => <<state[i], state'[i]>> \in LifecycleEdges
         /\ srt'[i] # srt[i] =>
              /\ i = cur
              /\ state[i] = "Combined"
              /\ combined[i].exists
              /\ ChunksHaveTranscripts(i)
         /\ state[i] \in Terminal =>
              /\ state'[i] = state[i]
              /\ srt'[i] = srt[i]
              /\ combined'[i] = combined[i]
              /\ i \in audio' => i \in audio
              /\ \A f \in splitDir' \ splitDir : f.base # i
              /\ i \in called' => i \in called
              /\ \A n \in JsonNames : (n[1] = i /\ json'[n] # json[n]) => ~json'[n].exists]_vars

C13_Witness ==
  \E i, j \in Items : state[i] = "SubtitleWritten" /\ state[j] = "Failed"

\* C14: after a rate-limit error the wait is the whole seconds of the hint in
\* the error message, or 60 seconds when the message has no hint, whatever
\* the number of attempts made.
HintSeconds(h) ==
  IF h.parseable THEN h.hours * 3600 + h.minutes * 60 + h.millis \div 1000 ELSE 60

C14_RateLimitWait ==
  [][(calls' = calls + 1 /\ lastResp' = "rate_limit")
       => lastWait' = HintSeconds(lastHint')]_vars

\* the time in milliseconds that the fields <<hours, minutes, seconds,
\* milliseconds>> of a timestamp denote
Decode(f) == ((f[1] * 60 + f[2]) * 60 + f[3]) * 1000 + f[4]

Rendered(f, t) == t - Decode(f) \in {0, 1}

\* C15: the subtitle written for a transcript of n segments has n blocks;
\* block k carries index k and the text and times of segment k; a segment with
\* an empty text has its block; a missing start or end is rendered as 0; a
\* transcript without segments gives an empty document.
C15_Rendering ==
  pc = "cleanup" =>
    LET segs == combined[cur].segments
        cues == srt[cur].cues
    IN /\ srt[cur].exists
       /\ Len(cues) = Len(segs)
       /\ segs = <<>> => cues = <<>>
       /\ \A k \in 1..Len(segs) :
            /\ cues[k].index = k
            /\ cues[k].text = (IF "text" \in DOMAIN segs[k] THEN segs[k].text ELSE <<>>)
            /\ IF "start" \in DOMAIN segs[k] THEN Rendered(cues[k].start, segs[k].start)
                                             ELSE cues[k].start = <<0, 0, 0, 0>>
            /\ IF "end" \in DOMAIN segs[k] THEN Rendered(cues[k].end, segs[k].end)
                                           ELSE cues[k].end = <<0, 0, 0, 0>>

C15_Witness ==
  /\ pc = "cleanup"
  /\ Len(srt[cur].cues) = 3
  /\ \E k \in 1..3 : "start" \notin DOMAIN combined[cur].segments[k]
  /\ \E k \in 1..3 : combined[cur].segments[k] = Seg(1500, 2750, <<>>)

FieldsInRange(f) ==
  /\ f[1] >= 0
  /\ f[2] \in 0..59
  /\ f[3] \in 0..59
  /\ f[4] \in 0..999

\* C16: for a time of t whole milliseconds, t <= 359999999, the fields are in
\* range and denote exactly t.
C16_TimestampExact ==
  (pc = "cleanup" /\ Len(srt[cur].cues) > 0) =>
    LET t == combined[cur].segments[1].start
        f == srt[cur].cues[1].start
    IN t <= 359999999 => (FieldsInRange(f) /\ Decode(f) = t)

\* C16 (amended): for a time of t whole milliseconds, t <= 359999999, the
\* fields are in range and denote t or 1 ms less than t.
C16_TimestampWithin1ms ==
  (pc = "cleanup" /\ Len(srt[cur].cues) > 0) =>
    LET t == combined[cur].segments[1].start
        f == srt[cur].cues[1].start
    IN t <= 359999999 => (FieldsInRange(f) /\ Rendered(f, t))

C16_Witness ==
  /\ pc = "cleanup"
  /\ Len(srt[cur].cues) > 0
  /\ combined[cur].segments[1].start = 59999
  /\ srt[cur].cues[1].start = <<0, 0, 59, 999>>

\* C17: a request for an asset is made only as attempt 1..5; after failed
\* attempt k the client waits k * 60 seconds; a successful attempt ends the
\* work on the asset with no further request; and the attempts on an asset
\* always come to an end.
C17_BoundedRetry ==
  /\ [][(calls' = calls + 1) =>
          /\ retry_count + 1 <= 5
          /\ lastResp' # "ok" =>
               /\ retry_count' = retry_count + 1
               /\ lastWait' = 60 * (retry_count + 1)
               /\ pc' = "attempt"
          /\ lastResp' = "ok" =>
               /\ pc' = "transcribe"
               /\ Len(json_files') = Len(json_files) + 1]_vars
  /\ (pc = "attempt") ~> (pc # "attempt")

C17_Witness ==
  /\ pc = "attempt"
  /\ lastResp = "transient"
  /\ retry_count = 4
  /\ lastWait = 240

\* C18: every request, the first for an asset and every retry, carries the
\* complete bytes of the asset.
C18_WholeAssetSent ==
  [][(calls' = calls + 1) => lastPayload' = "full"]_vars

\* C19: the files returned for an oversized audio are exactly the chunks cut
\* from it, and every cue of a subtitle was transcribed from the audio of
\* its own item.
C19_OwnChunksOnly ==
  /\ (pc \in {"transcribe", "attempt", "combine", "render", "cleanup"} /\ ~WithinLimit(cur))
       => Range(split_files) = OwnChunks(cur)
  /\ \A i \in Items :
       srt[i].exists => \A k \in 1..Len(srt[i].cues) : srt[i].cues[k].text[1] = i

====
